---- MODULE Spec2Model ----
(***************************************************************************)
(* The opening table of src-tauri/src/opening.rs: the lazily built static  *)
(* OPENINGS, the three lookups and the fuzzy name search.                  *)
(*                                                                         *)
(* Names are numbered: 0 is "Starting Position", 1 is "Empty Board", the   *)
(* names of the TSV rows are 2, 3, ...  ECO codes are numbered too: 0 is   *)
(* "Extra", a TSV row carries its row number, so that two rows with one    *)
(* name remain different Opening values.  Scores are integers 0..ScoreMax  *)
(* standing for the f64 values 0.0..1.0.  An Option is a sequence of       *)
(* length 0 or 1.  The chess engine is modelled on the d and e files,      *)
(* which is where the move tokens used here act; every other square keeps  *)
(* what the initial (or the empty) board has there.                        *)
(***************************************************************************)
EXTENDS Integers, Sequences, FiniteSets, TLC

\* ------------------------------------------------------------- bounds
NumThreads == 3
MaxTokens == 3
MaxReplayRecords == 1
MaxLookupRecords == 2
MaxOnceRecords == 1
MaxRecords == 15
MaxSpecial == 1
MaxDupGap == 2
NumClasses == 2

\* ------------------------------------------------- program constants
Limit == 15
StartingPosition == 0
EmptyBoard == 1
Extra == 0

VARIABLES
    once,       \* state of the lazy static's one-time initialisation
    OPENINGS,   \* the vector `positions`, which becomes the static OPENINGS
    cur,        \* the TSV record being replayed, if any (an Option)
    pos,        \* `pos`, the Chess position of the record being replayed
    tok,        \* index of the next token of cur.pgn
    pc,         \* per thread: where its call is
    seen,       \* per thread: the value of *OPENINGS its handler iterated
    result,     \* per thread: the handler it ran, its argument, what it returned
    runs        \* how many times the initialiser block has been entered

vars == <<once, OPENINGS, cur, pos, tok, pc, seen, result, runs>>

\* ------------------------------------------------------ Rust values
None == "None"
Ok(v) == [kind |-> "Ok", val |-> v]
Err(e) == [kind |-> "Err", val |-> e]
Panic(msg) == [kind |-> "Panic", val |-> msg]
Min(a, b) == IF a < b THEN a ELSE b
\* What a call left behind: the handler, its argument, what it returned
Returned(op, arg, ret) == [op |-> op, arg |-> arg, ret |-> ret]

\* --------------------------------------------- shakmaty, d and e files
Squares == {"d2", "d3", "d4", "e1", "e2", "e3", "e4", "e5", "e6", "e7"}
Empty == <<>>
WP == <<"white", "pawn">>
BP == <<"black", "pawn">>
WK == <<"white", "king">>

Board_default ==
    [sq |-> [s \in Squares |->
                CASE s \in {"d2", "e2"} -> WP
                  [] s = "e7" -> BP
                  [] s = "e1" -> WK
                  [] OTHER -> Empty],
     rest |-> "initial"]

Board_empty == [sq |-> [s \in Squares |-> Empty], rest |-> "empty"]

AllRights == {"a1", "h1", "a8", "h8"}

\* Setup::default() and Chess::default(): the initial position
Setup_default ==
    [board |-> Board_default, turn |-> "white", castling_rights |-> AllRights,
     ep_square |-> None, halfmoves |-> 0, fullmoves |-> 1]

\* Setup::empty(): no pieces, white to move, no rights
Setup_empty ==
    [board |-> Board_empty, turn |-> "white", castling_rights |-> {},
     ep_square |-> None, halfmoves |-> 0, fullmoves |-> 1]

Chess_default == Setup_default

Other(color) == IF color = "white" THEN "black" ELSE "white"

\* The move tokens of the model: a move number, which is no SAN, and four SANs
Tokens == {"1.", "e4", "d4", "e5", "Ke2"}

\* token.parse::<San>(): syntax only, the position is not consulted
San_parse(token) ==
    CASE token = "e4" -> Ok([role |-> "pawn", to |-> "e4"])
      [] token = "d4" -> Ok([role |-> "pawn", to |-> "d4"])
      [] token = "e5" -> Ok([role |-> "pawn", to |-> "e5"])
      [] token = "Ke2" -> Ok([role |-> "king", to |-> "e2"])
      [] OTHER -> Err("InvalidSan")

\* Pawn pushes on the d and e files: <<from, via, to>>, via = from for a single step
PawnPushes(color) ==
    IF color = "white"
    THEN {<<"d2", "d2", "d3">>, <<"d3", "d3", "d4">>, <<"d2", "d3", "d4">>,
          <<"e2", "e2", "e3">>, <<"e3", "e3", "e4">>, <<"e2", "e3", "e4">>,
          <<"e4", "e4", "e5">>, <<"e5", "e5", "e6">>, <<"e6", "e6", "e7">>}
    ELSE {<<"e7", "e7", "e6">>, <<"e6", "e6", "e5">>, <<"e7", "e6", "e5">>,
          <<"e5", "e5", "e4">>, <<"e4", "e4", "e3">>, <<"e3", "e3", "e2">>,
          <<"d4", "d4", "d3">>, <<"d3", "d3", "d2">>}

\* King steps between the modelled squares
KingSteps ==
    {<<"e1", "e2">>, <<"e1", "d2">>, <<"e2", "e1">>, <<"e2", "e3">>, <<"e2", "d2">>,
     <<"e2", "d3">>, <<"d2", "e1">>, <<"d2", "e2">>, <<"d2", "d3">>, <<"d2", "e3">>}

\* Squares from which a black pawn attacks the square
BlackPawnAttackers(to) ==
    CASE to = "e2" -> {"d3"}
      [] to = "d2" -> {"e3"}
      [] to = "e1" -> {"d2"}
      [] OTHER -> {}

\* The legal moves of `p` that the SAN describes
LegalMoves(san, p) ==
    LET b == p.board.sq
        pawn == <<p.turn, "pawn">>
    IN  IF p.board.rest # "initial" THEN {}
        ELSE IF san.role = "pawn"
        THEN {[role |-> "pawn", from |-> m[1], to |-> m[3],
               double |-> (m[1] # m[2])] :
                m \in {x \in PawnPushes(p.turn) :
                          /\ x[3] = san.to
                          /\ b[x[1]] = pawn
                          /\ b[x[2]] = (IF x[1] = x[2] THEN pawn ELSE Empty)
                          /\ b[x[3]] = Empty}}
        ELSE IF p.turn = "white"
        THEN {[role |-> "king", from |-> m[1], to |-> m[2], double |-> FALSE] :
                m \in {x \in KingSteps :
                          /\ x[2] = san.to
                          /\ b[x[1]] = WK
                          /\ b[x[2]] = Empty
                          /\ \A a \in BlackPawnAttackers(x[2]) : b[a] # BP}}
        ELSE {}

\* san.to_move(&pos): the one legal move the SAN names, or an error
San_to_move(san, p) ==
    LET ms == LegalMoves(san, p)
    IN  IF Cardinality(ms) = 1
        THEN Ok(CHOOSE m \in ms : TRUE)
        ELSE Err(IF ms = {} THEN "IllegalSan" ELSE "AmbiguousSan")

\* The square a double push skips
SkippedSquare(m) ==
    CHOOSE v \in Squares : \E c \in {"white", "black"} : <<m.from, v, m.to>> \in PawnPushes(c)

\* pos.play_unchecked(&m)
play_unchecked(p, m) ==
    [board |-> [p.board EXCEPT !.sq =
                   [s \in Squares |->
                       IF s = m.from THEN Empty
                       ELSE IF s = m.to THEN p.board.sq[m.from]
                       ELSE p.board.sq[s]]],
     turn |-> Other(p.turn),
     castling_rights |->
        IF m.role = "king" /\ p.turn = "white"
        THEN p.castling_rights \ {"a1", "h1"}
        ELSE p.castling_rights,
     ep_square |-> IF m.double THEN SkippedSquare(m) ELSE None,
     halfmoves |-> IF m.role = "pawn" THEN 0 ELSE p.halfmoves + 1,
     fullmoves |-> IF p.turn = "black" THEN p.fullmoves + 1 ELSE p.fullmoves]

\* Squares from which a pawn of the side to move could take on the e.p. square
EpCapturers(sq) ==
    CASE sq = "e3" -> {"d4"}
      [] sq = "d3" -> {"e4"}
      [] OTHER -> {}

\* pos.into_setup(EnPassantMode::Legal): the e.p. square only when a capture exists
into_setup(p) ==
    [p EXCEPT !.ep_square =
        IF /\ p.ep_square # None
           /\ \E s \in EpCapturers(p.ep_square) : p.board.sq[s] = <<p.turn, "pawn">>
        THEN p.ep_square
        ELSE None]

\* Fen::from_setup(setup): the six FEN fields, pieces as letters, rights as a string
PieceLetter(piece) ==
    CASE piece = WP -> "P"
      [] piece = BP -> "p"
      [] piece = WK -> "K"
      [] OTHER -> "1"

CastlingField(rights) ==
    CASE rights = AllRights -> "KQkq"
      [] rights = {"a8", "h8"} -> "kq"
      [] rights = {"a1", "h1"} -> "KQ"
      [] OTHER -> "-"

Fen_from_setup(setup) ==
    [placement |-> [sq |-> [s \in Squares |-> PieceLetter(setup.board.sq[s])],
                    rest |-> setup.board.rest],
     turn |-> IF setup.turn = "white" THEN "w" ELSE "b",
     castling |-> CastlingField(setup.castling_rights),
     ep |-> IF setup.ep_square = None THEN "-" ELSE setup.ep_square,
     halfmoves |-> setup.halfmoves,
     fullmoves |-> setup.fullmoves]

\* fen.parse::<Fen>() followed by into_setup(): every field is taken as written
LetterPiece(letter) ==
    CASE letter = "P" -> WP
      [] letter = "p" -> BP
      [] letter = "K" -> WK
      [] OTHER -> Empty

Fen_parse(fen) ==
    IF \/ fen.turn \notin {"w", "b"}
       \/ fen.castling \notin {"KQkq", "kq", "KQ", "-"}
       \/ \E s \in Squares : fen.placement.sq[s] \notin {"P", "p", "K", "1"}
    THEN Err("Fen")
    ELSE Ok([board |-> [sq |-> [s \in Squares |-> LetterPiece(fen.placement.sq[s])],
                        rest |-> fen.placement.rest],
             turn |-> IF fen.turn = "w" THEN "white" ELSE "black",
             castling_rights |->
                CASE fen.castling = "KQkq" -> AllRights
                  [] fen.castling = "kq" -> {"a8", "h8"}
                  [] fen.castling = "KQ" -> {"a1", "h1"}
                  [] OTHER -> {},
             ep_square |-> IF fen.ep = "-" THEN None ELSE fen.ep,
             halfmoves |-> fen.halfmoves,
             fullmoves |-> fen.fullmoves])

\* ------------------------------------------------ the static OPENINGS
Threads == DOMAIN pc

\* The vector `positions` as first built: the two entries without pgn
SyntheticOpenings ==
    << [eco |-> Extra, name |-> StartingPosition, setup |-> Setup_default, pgn |-> <<>>],
       [eco |-> Extra, name |-> EmptyBoard, setup |-> Setup_empty, pgn |-> <<>>] >>

\* Faulty variant of Deref_Init: the initialiser is entered also while another
\* thread runs it
Deref_Init_unguarded(t) ==
    /\ pc[t] = "call"
    /\ once \in {"INCOMPLETE", "RUNNING"}
    /\ once' = "RUNNING"
    /\ runs' = runs + 1
    /\ OPENINGS' = SyntheticOpenings
    /\ pc' = [pc EXCEPT ![t] = "init"]
    /\ UNCHANGED <<cur, pos, tok, seen, result>>

\* First access while nobody has started: this thread runs the initialiser
Deref_Init(t) ==
    /\ pc[t] = "call"
    /\ once = "INCOMPLETE"
    /\ once' = "RUNNING"
    /\ runs' = runs + 1
    /\ OPENINGS' = SyntheticOpenings
    /\ pc' = [pc EXCEPT ![t] = "init"]
    /\ UNCHANGED <<cur, pos, tok, seen, result>>

\* First access while another thread runs the initialiser: block
Deref_Wait(t) ==
    /\ pc[t] = "call"
    /\ once = "RUNNING"
    /\ pc' = [pc EXCEPT ![t] = "blocked"]
    /\ UNCHANGED <<once, OPENINGS, cur, pos, tok, seen, result, runs>>

\* Access after the initialiser has returned
Deref_Ready(t) ==
    /\ pc[t] \in {"call", "blocked"}
    /\ once = "COMPLETE"
    /\ pc' = [pc EXCEPT ![t] = "ready"]
    /\ UNCHANGED <<once, OPENINGS, cur, pos, tok, seen, result, runs>>

\* Access after the initialiser has panicked: the access panics too
Deref_Poisoned(t) ==
    /\ pc[t] \in {"call", "blocked"}
    /\ once = "POISONED"
    /\ pc' = [pc EXCEPT ![t] = "panicked"]
    /\ UNCHANGED <<once, OPENINGS, cur, pos, tok, seen, result, runs>>

\* rdr.deserialize() yields a record: pos = Chess::default()
NextRecord(t, name, pgn) ==
    /\ pc[t] = "init"
    /\ cur = <<>>
    /\ cur' = << [eco |-> Len(OPENINGS) - 1, name |-> name, pgn |-> pgn] >>
    /\ pos' = Chess_default
    /\ tok' = 1
    /\ UNCHANGED <<once, OPENINGS, pc, seen, result, runs>>

\* rdr.deserialize() yields an error: expect("Failed to deserialize opening")
DeserializeFails(t) ==
    /\ pc[t] = "init"
    /\ cur = <<>>
    /\ once' = "POISONED"
    /\ pc' = [pc EXCEPT ![t] = "panicked"]
    /\ result' = [result EXCEPT ![t] =
                     Returned("OPENINGS", <<>>, Panic("Failed to deserialize opening"))]
    /\ UNCHANGED <<OPENINGS, cur, pos, tok, seen, runs>>

\* Faulty variant of PlayToken: a SAN that names no legal move is passed over
PlayToken_skips_illegal(t) ==
    /\ pc[t] = "init"
    /\ cur # <<>>
    /\ tok <= Len(cur[1].pgn)
    /\ LET san == San_parse(cur[1].pgn[tok])
           mv == San_to_move(san.val, pos)
       IN  IF san.kind = "Ok" /\ mv.kind = "Ok"
           THEN pos' = play_unchecked(pos, mv.val)
           ELSE pos' = pos
    /\ tok' = tok + 1
    /\ UNCHANGED <<once, OPENINGS, cur, pc, seen, result, runs>>

\* One iteration of the loop over record.pgn.split_whitespace()
PlayToken(t) ==
    /\ pc[t] = "init"
    /\ cur # <<>>
    /\ tok <= Len(cur[1].pgn)
    /\ LET san == San_parse(cur[1].pgn[tok])
           mv == San_to_move(san.val, pos)
       IN  IF san.kind # "Ok"
           THEN /\ tok' = tok + 1
                /\ UNCHANGED <<once, pos, pc, result>>
           ELSE IF mv.kind = "Ok"
           THEN /\ pos' = play_unchecked(pos, mv.val)
                /\ tok' = tok + 1
                /\ UNCHANGED <<once, pc, result>>
           ELSE /\ once' = "POISONED"
                /\ pc' = [pc EXCEPT ![t] = "panicked"]
                /\ result' = [result EXCEPT ![t] = Returned("OPENINGS", <<>>, Panic("legal move"))]
                /\ UNCHANGED <<pos, tok>>
    /\ UNCHANGED <<OPENINGS, cur, seen, runs>>

\* positions.push(Opening { .. }) after the last token
PushOpening(t) ==
    /\ pc[t] = "init"
    /\ cur # <<>>
    /\ tok > Len(cur[1].pgn)
    /\ OPENINGS' = Append(OPENINGS,
                          [eco |-> cur[1].eco, name |-> cur[1].name,
                           setup |-> into_setup(pos), pgn |-> <<cur[1].pgn>>])
    /\ cur' = <<>>
    /\ UNCHANGED <<once, pos, tok, pc, seen, result, runs>>

\* The readers are exhausted: the block returns `positions`
EndOfData(t) ==
    /\ pc[t] = "init"
    /\ cur = <<>>
    /\ once' = "COMPLETE"
    /\ pc' = [pc EXCEPT ![t] = "ready"]
    /\ UNCHANGED <<OPENINGS, cur, pos, tok, seen, result, runs>>

\* ------------------------------------------------------- the lookups
\* Faulty variant of Find: the last index
Find_last(hits) ==
    IF hits = {} THEN 0 ELSE CHOOSE i \in hits : \A j \in hits : j <= i

\* iter().find(pred), given the set of indices whose element satisfies pred:
\* the first of them, 0 when there is none
Find(hits) ==
    IF hits = {} THEN 0 ELSE CHOOSE i \in hits : \A j \in hits : i <= j

\* The value of get_opening_from_setup(setup) on the table v
opening_from_setup(v, setup) ==
    LET i == Find({k \in 1..Len(v) : v[k].setup = setup})
    IN  IF i # 0 THEN Ok(v[i].name) ELSE Err("NoOpeningFound")

\* Faulty variant of opening_from_name: an entry without pgn counts as not found
opening_from_name_no_expect(v, name) ==
    LET i == Find({k \in 1..Len(v) : v[k].name = name})
    IN  IF i # 0 /\ v[i].pgn # <<>> THEN Ok(v[i].pgn[1]) ELSE Err("NoOpeningFound")

\* The value of get_opening_from_name(name) on the table v
opening_from_name(v, name) ==
    LET i == Find({k \in 1..Len(v) : v[k].name = name})
    IN  IF i = 0 THEN Err("NoOpeningFound")
        ELSE IF v[i].pgn = <<>> THEN Panic("opening without pgn")
        ELSE Ok(v[i].pgn[1])

\* A handler returns (or panics) with `ret`, having iterated OPENINGS
Return(t, op, arg, ret) ==
    /\ pc[t] = "ready"
    /\ result' = [result EXCEPT ![t] = Returned(op, arg, ret)]
    /\ seen' = [seen EXCEPT ![t] = OPENINGS]
    /\ pc' = [pc EXCEPT ![t] = IF ret.kind = "Panic" THEN "panicked" ELSE "returned"]
    /\ UNCHANGED <<once, OPENINGS, cur, pos, tok, runs>>

get_opening_from_setup(t, setup) ==
    Return(t, "get_opening_from_setup", setup, opening_from_setup(OPENINGS, setup))

\* fen.parse()? succeeds: the lookup runs on the parsed setup
get_opening_from_fen(t, fen) ==
    /\ Fen_parse(fen).kind = "Ok"
    /\ Return(t, "get_opening_from_fen", fen,
              opening_from_setup(OPENINGS, Fen_parse(fen).val))

\* fen.parse()? fails: the error is returned before OPENINGS is touched
get_opening_from_fen_invalid(t, fen) ==
    /\ pc[t] = "call"
    /\ Fen_parse(fen).kind = "Err"
    /\ result' = [result EXCEPT ![t] = Returned("get_opening_from_fen", fen, Fen_parse(fen))]
    /\ pc' = [pc EXCEPT ![t] = "returned"]
    /\ UNCHANGED <<once, OPENINGS, cur, pos, tok, seen, runs>>

get_opening_from_name(t, name) ==
    Return(t, "get_opening_from_name", name, opening_from_name(OPENINGS, name))

\* -------------------------------------------------- the name search
ScoreMax == NumClasses

\* strsim::jaro_winkler(query, name): a value fixed by the two strings, 1.0 exactly
\* when they are equal; here one of NumClasses lower values otherwise
jaro_winkler(query, name) ==
    IF query = name THEN ScoreMax ELSE (query + name) % NumClasses

\* best_matches.sort_by(|a, b| b.1.partial_cmp(&a.1).unwrap()): stable, descending
InsertDesc(s, x) ==
    LET k == Cardinality({i \in 1..Len(s) : s[i][2] >= x[2]})
    IN  SubSeq(s, 1, k) \o <<x>> \o SubSeq(s, k + 1, Len(s))

\* Faulty variant of sort_by: an unstable sort, equal scores change places
InsertDesc_unstable(s, x) ==
    LET k == Cardinality({i \in 1..Len(s) : s[i][2] > x[2]})
    IN  SubSeq(s, 1, k) \o <<x>> \o SubSeq(s, k + 1, Len(s))

RECURSIVE sort_by_unstable(_)
sort_by_unstable(v) ==
    IF v = <<>> THEN <<>>
    ELSE InsertDesc_unstable(sort_by_unstable(SubSeq(v, 1, Len(v) - 1)), v[Len(v)])

RECURSIVE sort_by(_)
sort_by(v) ==
    IF v = <<>> THEN <<>>
    ELSE InsertDesc(sort_by(SubSeq(v, 1, Len(v) - 1)), v[Len(v)])

\* best_matches.pop()
Pop(v) == SubSeq(v, 1, Len(v) - 1)

\* Faulty variant of scan_step: score >= min_score
scan_step_ge(best_matches, opening, query) ==
    IF \E i \in 1..Len(best_matches) : best_matches[i][1].name = opening.name
    THEN best_matches
    ELSE LET score == jaro_winkler(query, opening.name)
         IN  IF Len(best_matches) < Limit
             THEN sort_by(Append(best_matches, <<opening, score>>))
             ELSE IF best_matches # <<>> /\ score >= best_matches[Len(best_matches)][2]
             THEN sort_by(Append(Pop(best_matches), <<opening, score>>))
             ELSE best_matches

\* Faulty variant of scan_step: the first pair is removed instead of the last
scan_step_pop_front(best_matches, opening, query) ==
    IF \E i \in 1..Len(best_matches) : best_matches[i][1].name = opening.name
    THEN best_matches
    ELSE LET score == jaro_winkler(query, opening.name)
         IN  IF Len(best_matches) < Limit
             THEN sort_by(Append(best_matches, <<opening, score>>))
             ELSE IF best_matches # <<>> /\ score > best_matches[Len(best_matches)][2]
             THEN sort_by(Append(Tail(best_matches), <<opening, score>>))
             ELSE best_matches

\* Faulty variant of scan_step: every new name is pushed
scan_step_no_limit(best_matches, opening, query) ==
    IF \E i \in 1..Len(best_matches) : best_matches[i][1].name = opening.name
    THEN best_matches
    ELSE sort_by(Append(best_matches, <<opening, jaro_winkler(query, opening.name)>>))

\* Faulty variant of scan_step: nothing is replaced once the list is full
scan_step_no_evict(best_matches, opening, query) ==
    IF \E i \in 1..Len(best_matches) : best_matches[i][1].name = opening.name
    THEN best_matches
    ELSE IF Len(best_matches) < Limit
    THEN sort_by(Append(best_matches, <<opening, jaro_winkler(query, opening.name)>>))
    ELSE best_matches

\* The body of `for opening in OPENINGS.iter()`
scan_step(best_matches, opening, query) ==
    IF \E i \in 1..Len(best_matches) : best_matches[i][1].name = opening.name
    THEN best_matches
    ELSE LET score == jaro_winkler(query, opening.name)
         IN  IF Len(best_matches) < Limit
             THEN sort_by(Append(best_matches, <<opening, score>>))
             ELSE IF best_matches # <<>> /\ score > best_matches[Len(best_matches)][2]
             THEN sort_by(Append(Pop(best_matches), <<opening, score>>))
             ELSE best_matches

\* best_matches after the first k elements of v
RECURSIVE scan(_, _, _)
scan(v, k, query) ==
    IF k = 0 THEN <<>> ELSE scan_step(scan(v, k - 1, query), v[k], query)

\* The value of search_opening_name(query) on the table v
search_result(v, query) ==
    LET best_matches == scan(v, Len(v), query)
    IN  IF best_matches # <<>>
        THEN Ok([i \in 1..Len(best_matches) |-> best_matches[i][1]])
        ELSE Err("NoMatchFound")

search_opening_name(t, query) ==
    Return(t, "search_opening_name", query, search_result(OPENINGS, query))

\* ------------------------------------------------ the specifications
InitFor(threads) ==
    /\ once = "INCOMPLETE"
    /\ OPENINGS = <<>>
    /\ cur = <<>>
    /\ pos = Chess_default
    /\ tok = 0
    /\ pc = [t \in threads |-> "call"]
    /\ seen = [t \in threads |-> <<>>]
    /\ result = [t \in threads |-> Returned("none", <<>>, Ok(<<>>))]
    /\ runs = 0

\* The rows of the name search.  A row's name is the next unused number, or, for at
\* most MaxSpecial rows of the table, the number after it, the name of one of
\* the last MaxDupGap entries, or one of the two built-in names.
MaxName(v) == CHOOSE n \in {v[i].name : i \in 1..Len(v)} : \A i \in 1..Len(v) : v[i].name <= n
SpecialRows(v) == {i \in 3..Len(v) : v[i].name # MaxName(SubSeq(v, 1, i - 1)) + 1}
RowNames(v) ==
    {MaxName(v) + 1} \cup
    (IF Cardinality(SpecialRows(v)) < MaxSpecial
     THEN {MaxName(v) + 2, StartingPosition, EmptyBoard}
          \cup {v[i].name : i \in {k \in 1..Len(v) : k > Len(v) - MaxDupGap}}
     ELSE {})

\* The queries of the name search: a built-in name, an early row and a row that
\* is reached only when best_matches is full
Queries == {StartingPosition, 5, Limit + 1}

InitSearch == InitFor({1})

SearchRow(t) ==
    /\ pc[t] = "init"
    /\ Len(OPENINGS) < 2 + MaxRecords
    /\ \E name \in RowNames(OPENINGS) : NextRecord(t, name, <<>>)

NextSearch ==
    \/ \E t \in Threads : Deref_Init(t)
    \/ \E t \in Threads : SearchRow(t)
    \/ \E t \in Threads : PushOpening(t)
    \/ \E t \in Threads : EndOfData(t)
    \/ \E t \in Threads, query \in Queries : search_opening_name(t, query)

SpecSearch == InitSearch /\ [][NextSearch]_vars

\* ------------------------------------------- claims on the name search
\* Thread t has returned Ok from search_opening_name
Searched(t) ==
    /\ pc[t] = "returned"
    /\ result[t].op = "search_opening_name"
    /\ result[t].ret.kind = "Ok"

\* The place in OPENINGS of a returned Opening
IndexOf(o) == CHOOSE i \in 1..Len(OPENINGS) : OPENINGS[i] = o

\* OPENINGS[i] is the first entry with its name
FirstOfName(i) == \A j \in 1..(i - 1) : OPENINGS[j].name # OPENINGS[i].name
Firsts == {i \in 1..Len(OPENINGS) : FirstOfName(i)}

\* OPENINGS[i] is among the returned openings r
Returns(r, i) == \E k \in 1..Len(r) : r[k] = OPENINGS[i]

\* C1: search_opening_name returns at most 15 openings, in order of non-increasing
\* score against the query.
C1_AtMost15Sorted ==
    \A t \in Threads : Searched(t) =>
        LET r == result[t].ret.val
            q == result[t].arg
        IN  /\ Len(r) <= 15
            /\ \A i \in 1..(Len(r) - 1) :
                  jaro_winkler(q, r[i].name) >= jaro_winkler(q, r[i + 1].name)

\* A search over more than 15 differently named entries that returned 15 openings
\* of at least two different scores
C1_Witness ==
    \E t \in Threads :
        /\ Searched(t)
        /\ Cardinality(Firsts) > 15
        /\ Len(result[t].ret.val) = 15
        /\ jaro_winkler(result[t].arg, result[t].ret.val[1].name)
              > jaro_winkler(result[t].arg, result[t].ret.val[15].name)

\* C2: no two returned openings share a name, and every returned opening is the
\* first entry of OPENINGS with its name, also when that first entry had left
\* best_matches before the later one was reached.
C2_FirstOfNameOnly ==
    \A t \in Threads : Searched(t) =>
        LET r == result[t].ret.val
        IN  /\ \A i, j \in 1..Len(r) : i # j => r[i].name # r[j].name
            /\ \A i \in 1..Len(r) : FirstOfName(IndexOf(r[i]))

\* A search in which an entry was put into best_matches, was evicted, and an entry
\* of the same name came later
C2_Witness ==
    \E t \in Threads :
        /\ Searched(t)
        /\ \E f \in Firsts, d \in 1..Len(OPENINGS) :
              /\ f < d
              /\ OPENINGS[d].name = OPENINGS[f].name
              /\ \E k \in 1..Len(scan(OPENINGS, f, result[t].arg)) :
                    scan(OPENINGS, f, result[t].arg)[k][1] = OPENINGS[f]
              /\ \A k \in 1..Len(scan(OPENINGS, d - 1, result[t].arg)) :
                    scan(OPENINGS, d - 1, result[t].arg)[k][1].name # OPENINGS[f].name

\* C8: when the query is a name of the table, the first entry with that name is
\* returned whenever fewer than 15 other names of the table score at least as
\* high as it does.
C8_ExactNameReturned ==
    \A t \in Threads : Searched(t) =>
        LET r == result[t].ret.val
            q == result[t].arg
            others == {OPENINGS[i].name : i \in 1..Len(OPENINGS)} \ {q}
        IN  \A f \in Firsts :
                (/\ OPENINGS[f].name = q
                 /\ Cardinality({n \in others : jaro_winkler(q, n) >= jaro_winkler(q, q)}) < 15)
                => Returns(r, f)

\* The queried name is met when best_matches is full, and its entry is returned first
C8_Witness ==
    \E t \in Threads :
        /\ Searched(t)
        /\ \E f \in Firsts :
              /\ f > 16
              /\ OPENINGS[f].name = result[t].arg
              /\ result[t].ret.val[1] = OPENINGS[f]

\* C9: returned openings of equal score stand in the order of their entries in
\* OPENINGS.
C9_TiesInIndexOrder ==
    \A t \in Threads : Searched(t) =>
        LET r == result[t].ret.val
            q == result[t].arg
        IN  \A a, b \in 1..Len(r) :
                (a < b /\ jaro_winkler(q, r[a].name) = jaro_winkler(q, r[b].name))
                => IndexOf(r[a]) < IndexOf(r[b])

\* Two returned openings of equal score, one pushed while best_matches was filling
\* and one that replaced an evicted entry
C9_Witness ==
    \E t \in Threads :
        /\ Searched(t)
        /\ \E a, b \in 1..Len(result[t].ret.val) :
              /\ a < b
              /\ jaro_winkler(result[t].arg, result[t].ret.val[a].name)
                    = jaro_winkler(result[t].arg, result[t].ret.val[b].name)
              /\ IndexOf(result[t].ret.val[a]) <= 15
              /\ IndexOf(result[t].ret.val[b]) > 15

\* C10: among the first entries of each name, an entry is returned exactly when
\* fewer than 15 of them beat it (a higher score, or the same score and an
\* earlier place); the result has min(15, number of names) openings.
C10_TrueTop15 ==
    \A t \in Threads : Searched(t) =>
        LET r == result[t].ret.val
            q == result[t].arg
            Beats(f, e) ==
                \/ jaro_winkler(q, OPENINGS[f].name) > jaro_winkler(q, OPENINGS[e].name)
                \/ /\ jaro_winkler(q, OPENINGS[f].name) = jaro_winkler(q, OPENINGS[e].name)
                   /\ f < e
        IN  /\ \A e \in Firsts :
                  Returns(r, e) <=> Cardinality({f \in Firsts : Beats(f, e)}) < 15
            /\ Len(r) = Min(15, Cardinality(Firsts))

\* A search that evicted: a late entry is returned and the first entry of some
\* name is not
C10_Witness ==
    \E t \in Threads :
        /\ Searched(t)
        /\ \E e \in Firsts : ~Returns(result[t].ret.val, e)
        /\ \E e \in Firsts : e > 15 /\ Returns(result[t].ret.val, e)

\* ------------------------------------------- replaying one record's pgn
\* Every pgn of at most MaxTokens tokens
TokenSeqs == UNION {[1..n -> Tokens] : n \in 0..MaxTokens}

ReplayRow(t) ==
    /\ pc[t] = "init"
    /\ Len(OPENINGS) < 2 + MaxReplayRecords
    /\ \E pgn \in TokenSeqs : NextRecord(t, 2, pgn)

InitReplay == InitFor({1})

NextReplay ==
    \/ \E t \in Threads : Deref_Init(t)
    \/ \E t \in Threads : ReplayRow(t)
    \/ \E t \in Threads : DeserializeFails(t)
    \/ \E t \in Threads : PlayToken(t)
    \/ \E t \in Threads : PushOpening(t)
    \/ \E t \in Threads : EndOfData(t)

SpecReplay == InitReplay /\ [][NextReplay]_vars

\* The position after the tokens, passing over every token that is no SAN or names
\* no legal move where it stands
RECURSIVE ReplayLegal(_, _)
ReplayLegal(p, tokens) ==
    IF tokens = <<>> THEN p
    ELSE LET san == San_parse(Head(tokens))
         IN  IF san.kind = "Ok" /\ San_to_move(san.val, p).kind = "Ok"
             THEN ReplayLegal(play_unchecked(p, San_to_move(san.val, p).val), Tail(tokens))
             ELSE ReplayLegal(p, Tail(tokens))

\* The position after the tokens, passing over the tokens that are no SAN; an
\* error when a SAN among them names no legal move where it stands
RECURSIVE ReplaySan(_, _)
ReplaySan(p, tokens) ==
    IF tokens = <<>> THEN Ok(p)
    ELSE LET san == San_parse(Head(tokens))
         IN  IF san.kind # "Ok" THEN ReplaySan(p, Tail(tokens))
             ELSE IF San_to_move(san.val, p).kind = "Ok"
             THEN ReplaySan(play_unchecked(p, San_to_move(san.val, p).val), Tail(tokens))
             ELSE Err("legal move")

PanickedWith(t, msg) ==
    /\ pc[t] = "panicked"
    /\ result[t].ret.kind = "Panic"
    /\ result[t].ret.val = msg

\* C3 as stated: a token that is no legal move is passed over, it never aborts the
\* construction, and a stored position is the replay of the record's legal tokens.
C3_IllegalTokenSkipped ==
    /\ \A t \in Threads : ~PanickedWith(t, "legal move")
    /\ \A i \in 3..Len(OPENINGS) :
          OPENINGS[i].setup = into_setup(ReplayLegal(Chess_default, OPENINGS[i].pgn[1]))

\* C3 as amended: a token that is no SAN is passed over; a SAN that names no legal
\* move in the current position panics ("legal move") and nothing is stored; a
\* stored position is the replay of all the record's SANs, each one legal.
C3_OnlyNonSanSkipped ==
    /\ \A i \in 3..Len(OPENINGS) :
          /\ ReplaySan(Chess_default, OPENINGS[i].pgn[1]).kind = "Ok"
          /\ OPENINGS[i].setup = into_setup(ReplaySan(Chess_default, OPENINGS[i].pgn[1]).val)
    /\ cur # <<>> =>
          /\ ReplaySan(Chess_default, SubSeq(cur[1].pgn, 1, tok - 1)).kind = "Ok"
          /\ ReplaySan(Chess_default, SubSeq(cur[1].pgn, 1, tok - 1)).val = pos
    /\ \A t \in Threads : PanickedWith(t, "legal move") <=>
          /\ pc[t] = "panicked"
          /\ cur # <<>>
          /\ tok <= Len(cur[1].pgn)
          /\ ReplaySan(Chess_default, SubSeq(cur[1].pgn, 1, tok)).kind = "Err"

\* A stored record whose pgn holds a token that is no SAN, which was passed over,
\* and a SAN, which was played
C3_Witness ==
    \E i \in 3..Len(OPENINGS) :
        /\ \E k \in 1..Len(OPENINGS[i].pgn[1]) : San_parse(OPENINGS[i].pgn[1][k]).kind = "Err"
        /\ OPENINGS[i].setup # Setup_default

\* ------------------------------------------------------- the lookups
\* The rows of the lookups: three names, one of them a built-in name, and six pgns:
\* a move number to pass over, two move orders reaching one position, and a
\* king move that is not legal from the initial position
LookupNames == {StartingPosition, 2, 3}
LookupPgns ==
    {<<"e4", "e5">>, <<"1.", "e4", "e5">>, <<"e4", "e5", "Ke2">>,
     <<"d4", "e5", "e4">>, <<"e4", "e5", "d4">>, <<"Ke2">>}

LookupRow(t) ==
    /\ pc[t] = "init"
    /\ Len(OPENINGS) < 2 + MaxLookupRecords
    /\ \E name \in LookupNames, pgn \in LookupPgns : NextRecord(t, name, pgn)

\* The queries: the setups the rows can reach and the two built-in ones; their
\* FENs with the two clocks varied, and a FEN that does not parse; five names
QuerySetups ==
    {Setup_default, Setup_empty}
    \cup {into_setup(ReplayLegal(Chess_default, pgn)) : pgn \in LookupPgns}
FenQueries ==
    {[Fen_from_setup(s) EXCEPT !.halfmoves = h, !.fullmoves = f] :
        s \in QuerySetups, h \in 0..1, f \in 1..2}
    \cup {[Fen_from_setup(Setup_default) EXCEPT !.turn = "x"]}
NameQueries == {StartingPosition, EmptyBoard, 2, 3, 4}

InitLookup == InitFor({1})

NextLookup ==
    \/ \E t \in Threads : Deref_Init(t)
    \/ \E t \in Threads : LookupRow(t)
    \/ \E t \in Threads : PlayToken(t)
    \/ \E t \in Threads : PushOpening(t)
    \/ \E t \in Threads : EndOfData(t)
    \/ \E t \in Threads, setup \in QuerySetups : get_opening_from_setup(t, setup)
    \/ \E t \in Threads, fen \in FenQueries : get_opening_from_fen(t, fen)
    \/ \E t \in Threads, fen \in FenQueries : get_opening_from_fen_invalid(t, fen)
    \/ \E t \in Threads, name \in NameQueries : get_opening_from_name(t, name)

SpecLookup == InitLookup /\ [][NextLookup]_vars

\* Thread t has looked a position up, given as a setup or as a FEN that parses
LookedUpSetup(t) ==
    \/ result[t].op = "get_opening_from_setup"
    \/ result[t].op = "get_opening_from_fen" /\ Fen_parse(result[t].arg).kind = "Ok"

QueriedSetup(t) ==
    IF result[t].op = "get_opening_from_fen"
    THEN Fen_parse(result[t].arg).val
    ELSE result[t].arg

\* C4: the table is "Starting Position", "Empty Board", then the rows in source
\* order; a position lookup returns the name of the earliest entry with the
\* queried setup, and Err(NoOpeningFound), never a panic, when there is none.
C4_FirstEntryOfSetup ==
    /\ once = "COMPLETE" =>
          /\ OPENINGS[1].name = StartingPosition /\ OPENINGS[1].setup = Setup_default
          /\ OPENINGS[2].name = EmptyBoard /\ OPENINGS[2].setup = Setup_empty
          /\ \A i \in 3..Len(OPENINGS) : OPENINGS[i].eco = i - 2
    /\ \A t \in Threads : LookedUpSetup(t) =>
          LET hits == {i \in 1..Len(OPENINGS) : OPENINGS[i].setup = QueriedSetup(t)}
              ret == result[t].ret
          IN  /\ pc[t] = "returned"
              /\ hits = {} => ret.kind = "Err" /\ ret.val = "NoOpeningFound"
              /\ hits # {} =>
                    /\ ret.kind = "Ok"
                    /\ \E i \in hits : ret.val = OPENINGS[i].name /\ \A j \in hits : i <= j

\* A lookup of a setup that two entries of different names hold: the earlier wins
C4_Witness ==
    \E t \in Threads :
        /\ LookedUpSetup(t)
        /\ \E i, j \in 1..Len(OPENINGS) :
              /\ i < j
              /\ OPENINGS[i].setup = QueriedSetup(t)
              /\ OPENINGS[j].setup = QueriedSetup(t)
              /\ OPENINGS[i].name # OPENINGS[j].name
              /\ result[t].ret.kind = "Ok"
              /\ result[t].ret.val = OPENINGS[i].name

\* C5: get_opening_from_name goes by the first entry with the queried name: its
\* pgn when it has one, a panic when it has none (which is so exactly for the
\* two built-in names), Err(NoOpeningFound) when no entry has the name.
C5_ThreeOutcomes ==
    \A t \in Threads : result[t].op = "get_opening_from_name" =>
        LET hits == {i \in 1..Len(OPENINGS) : OPENINGS[i].name = result[t].arg}
            ret == result[t].ret
        IN  /\ hits = {} =>
                  pc[t] = "returned" /\ ret.kind = "Err" /\ ret.val = "NoOpeningFound"
            /\ hits # {} =>
                  LET first == CHOOSE i \in hits : \A j \in hits : i <= j
                  IN  /\ OPENINGS[first].pgn = <<>>
                         <=> result[t].arg \in {StartingPosition, EmptyBoard}
                      /\ OPENINGS[first].pgn = <<>> =>
                            pc[t] = "panicked" /\ ret.kind = "Panic"
                      /\ OPENINGS[first].pgn # <<>> =>
                            /\ pc[t] = "returned"
                            /\ ret.kind = "Ok"
                            /\ ret.val = OPENINGS[first].pgn[1]

\* The query is a built-in name that a row carries too: the call panics although a
\* later entry of that name has a pgn
C5_Witness ==
    \E t \in Threads :
        /\ result[t].op = "get_opening_from_name"
        /\ pc[t] = "panicked"
        /\ \E i \in 3..Len(OPENINGS) : OPENINGS[i].name = result[t].arg

\* C7: two FENs with the same placement, side to move, castling rights and e.p.
\* square get the same answer from get_opening_from_fen, whatever their clocks.
C7_ClocksIgnored ==
    \A t \in Threads :
        (result[t].op = "get_opening_from_fen" /\ Fen_parse(result[t].arg).kind = "Ok") =>
            \A fen \in FenQueries :
                (/\ Fen_parse(fen).kind = "Ok"
                 /\ fen.placement = result[t].arg.placement
                 /\ fen.turn = result[t].arg.turn
                 /\ fen.castling = result[t].arg.castling
                 /\ fen.ep = result[t].arg.ep)
                => /\ opening_from_setup(OPENINGS, Fen_parse(fen).val).kind = result[t].ret.kind
                   /\ opening_from_setup(OPENINGS, Fen_parse(fen).val).val = result[t].ret.val

\* ------------------------------------------- concurrent first accesses
\* NumThreads threads each make one call; the rows are one legal and one that panics
OnceRow(t) ==
    /\ pc[t] = "init"
    /\ Len(OPENINGS) < 2 + MaxOnceRecords
    /\ \E pgn \in {<<"e4">>, <<"Ke2">>} : NextRecord(t, 2, pgn)

InitOnce == InitFor(1..NumThreads)

NextOnce ==
    \/ \E t \in Threads : Deref_Init(t)
    \/ \E t \in Threads : Deref_Wait(t)
    \/ \E t \in Threads : Deref_Ready(t)
    \/ \E t \in Threads : Deref_Poisoned(t)
    \/ \E t \in Threads : OnceRow(t)
    \/ \E t \in Threads : PlayToken(t)
    \/ \E t \in Threads : PushOpening(t)
    \/ \E t \in Threads : EndOfData(t)
    \/ \E t \in Threads : get_opening_from_setup(t, Setup_default)
    \/ \E t \in Threads : get_opening_from_name(t, 2)
    \/ \E t \in Threads : search_opening_name(t, 2)

SpecOnce == InitOnce /\ [][NextOnce]_vars

\* Thread t has run a handler over OPENINGS
Iterated(t) ==
    result[t].op \in {"get_opening_from_setup", "get_opening_from_name", "search_opening_name"}

\* C6: the initialiser is entered at most once; a thread holds a reference to
\* OPENINGS, or has iterated it, only after the initialiser has returned; what a
\* thread iterated is the table as it stands; once built, the table never changes.
C6_BuiltOnce ==
    /\ [](/\ runs <= 1
          /\ \A t \in Threads :
                /\ pc[t] \in {"ready", "returned"} => once = "COMPLETE" /\ cur = <<>>
                /\ Iterated(t) => once = "COMPLETE" /\ seen[t] = OPENINGS)
    /\ [][once = "COMPLETE" => (once' = "COMPLETE" /\ OPENINGS' = OPENINGS)]_vars

\* One thread built the table and has iterated it while another, which called during
\* the construction, is still blocked
C6_Witness ==
    \E t, u \in Threads :
        /\ Iterated(t)
        /\ pc[u] = "blocked"
        /\ once = "COMPLETE"
        /\ runs = 1
====
